---- MODULE Spec2Model ----
(***************************************************************************)
(* d1-rest: an HTTP-to-SQL gateway (Hono worker).  src/src/index.ts holds  *)
(* the fetch entry point, the CORS and bearer-token middlewares and the    *)
(* raw /query route; src/unnamed/part_000 (rest.ts) holds the identifier   *)
(* sanitizer, the four statement compilers and handleRest.                 *)
(*                                                                         *)
(* Strings are sequences of one-character strings, so that sanitising,     *)
(* prefix tests, upper-casing, integer parsing and counting placeholders   *)
(* are computed on the characters as the code computes them.               *)
(***************************************************************************)
EXTENDS Integers, Sequences, FiniteSets, TLC

VARIABLES
    pc,            \* position of the request in the middleware/handler chain
    method,        \* c.req.method
    pathParts,     \* url.pathname.split('/').filter(Boolean)
    secret,        \* await env.SECRET.get()
    authHeader,    \* c.req.header('Authorization'): [present, value]
    searchParams,  \* new URL(c.req.url).searchParams, as ordered [key, value] entries
    body,          \* what c.req.json() yields (or that it throws)
    compiled,      \* the {status, message, params} object a compiler returned
    db,            \* the D1 handle selected by the switch on db_name ("null" before)
    prepared,      \* SQL texts handed to db.prepare, in order
    bound,         \* values handed to .bind on the prepared statement
    executed,      \* statements run with .all()/.run(): [db, sql, bound, ok]
    responses,     \* responses produced for the request: [status, body]
    ident,         \* sanitizer harness: the string handed to sanitizeIdentifier
    safe           \* sanitizer harness: [done, out] the string it returned

vars == <<pc, method, pathParts, secret, authHeader, searchParams, body, compiled, db,
          prepared, bound, executed, responses, ident, safe>>

----------------------------------------------------------------------------
(* Bounds of the model *)

\* longest string handed to the sanitizer harness
MaxLen == 3
\* most entries in a query string
MaxQuery == 2
\* most keys in a JSON object body
MaxKeys == 2

----------------------------------------------------------------------------
(* Characters and string helpers *)

LowerSeq == <<"a","b","c","d","e","f","g","h","i","j","k","l","m",
              "n","o","p","q","r","s","t","u","v","w","x","y","z">>
UpperSeq == <<"A","B","C","D","E","F","G","H","I","J","K","L","M",
              "N","O","P","Q","R","S","T","U","V","W","X","Y","Z">>
DigitSeq == <<"0","1","2","3","4","5","6","7","8","9">>

\* 'Bearer '.length, the argument of authHeader.substring
BearerLen == 7

\* the backquote character (a string literal of the module cannot hold it)
Backtick == "backquote"

Range(s) == { s[i] : i \in DOMAIN s }

AsciiLower == Range(LowerSeq)
AsciiUpper == Range(UpperSeq)
AsciiDigit == Range(DigitSeq)

\* all sequences over S of length at most n
SeqsUpTo(S, n) == UNION { [1..k -> S] : k \in 0..n }

\* s.startsWith(p)
StartsWith(s, p) == Len(s) >= Len(p) /\ SubSeq(s, 1, Len(p)) = p

\* s.substring(k)
Substring(s, k) == SubSeq(s, k + 1, Len(s))

\* number of positions of s holding the character ch
RECURSIVE CountChar(_, _)
CountChar(s, ch) ==
    IF s = <<>> THEN 0
    ELSE (IF Head(s) = ch THEN 1 ELSE 0) + CountChar(Tail(s), ch)

\* parts.join(sep)
RECURSIVE Join(_, _)
Join(parts, sep) ==
    IF parts = <<>> THEN <<>>
    ELSE IF Len(parts) = 1 THEN parts[1]
    ELSE parts[1] \o sep \o Join(Tail(parts), sep)

\* String.prototype.toUpperCase on ASCII
ToUpperChar(ch) ==
    IF \E i \in DOMAIN LowerSeq : LowerSeq[i] = ch
    THEN UpperSeq[CHOOSE i \in DOMAIN LowerSeq : LowerSeq[i] = ch]
    ELSE ch

ToUpperCase(s) == [i \in DOMAIN s |-> ToUpperChar(s[i])]

----------------------------------------------------------------------------
(* JavaScript values that end up in a parameter list *)

StrVal(s) == [t |-> "string", s |-> s, n |-> 0]
NumVal(n) == [t |-> "number", s |-> <<>>, n |-> n]
NaNVal == [t |-> "NaN", s |-> <<>>, n |-> 0]
Undefined == [t |-> "undefined", s |-> <<>>, n |-> 0]

DigitValue(ch) == (CHOOSE i \in DOMAIN DigitSeq : DigitSeq[i] = ch) - 1

RECURSIVE SkipSpaces(_)
SkipSpaces(s) ==
    IF s # <<>> /\ Head(s) = " " THEN SkipSpaces(Tail(s)) ELSE s

RECURSIVE DigitPrefix(_)
DigitPrefix(s) ==
    IF s # <<>> /\ Head(s) \in AsciiDigit
    THEN <<Head(s)>> \o DigitPrefix(Tail(s))
    ELSE <<>>

RECURSIVE DigitsToInt(_, _)
DigitsToInt(ds, acc) ==
    IF ds = <<>> THEN acc
    ELSE DigitsToInt(Tail(ds), acc * 10 + DigitValue(Head(ds)))

\* parseInt(s): leading blanks, an optional sign, then the longest run of
\* decimal digits; NaN when there is no digit
ParseInt(s) ==
    LET t == SkipSpaces(s)
        neg == t # <<>> /\ Head(t) = "-"
        u == IF t # <<>> /\ Head(t) \in {"+", "-"} THEN Tail(t) ELSE t
        ds == DigitPrefix(u)
    IN  IF ds = <<>> THEN NaNVal
        ELSE NumVal(IF neg THEN 0 - DigitsToInt(ds, 0) ELSE DigitsToInt(ds, 0))

----------------------------------------------------------------------------
(* Identifier sanitizer *)

\* the characters the class [^a-zA-Z0-9_] does not match
IsWordChar(ch) == ch \in AsciiLower \cup AsciiUpper \cup AsciiDigit \cup {"_"}

\* the same replace without the g flag: only the first match is removed
RECURSIVE sanitizeIdentifier_FirstOnly(_)
sanitizeIdentifier_FirstOnly(identifier) ==
    IF identifier = <<>> THEN <<>>
    ELSE IF IsWordChar(Head(identifier))
         THEN <<Head(identifier)>> \o sanitizeIdentifier_FirstOnly(Tail(identifier))
         ELSE Tail(identifier)

\* identifier.replace(/[^a-zA-Z0-9_]/g, '')
RECURSIVE sanitizeIdentifier(_)
sanitizeIdentifier(identifier) ==
    IF identifier = <<>> THEN <<>>
    ELSE IF IsWordChar(Head(identifier))
         THEN <<Head(identifier)>> \o sanitizeIdentifier(Tail(identifier))
         ELSE sanitizeIdentifier(Tail(identifier))

sanitizeKeyword(identifier) ==
    <<Backtick>> \o sanitizeIdentifier(identifier) \o <<Backtick>>

----------------------------------------------------------------------------
(* String literals of the source *)

kwSelectFrom == <<"S","E","L","E","C","T"," ","*"," ","F","R","O","M"," ">>
kwWhere == <<" ","W","H","E","R","E"," ">>
kwAnd == <<" ","A","N","D"," ">>
kwIdEq == <<"i","d"," ","="," ","?">>
kwEqParam == <<" ","="," ","?">>
kwOrderBy == <<" ","O","R","D","E","R"," ","B","Y"," ">>
kwAsc == <<"A","S","C">>
kwDesc == <<"D","E","S","C">>
kwLimit == <<" ","L","I","M","I","T"," ","?">>
kwOffset == <<" ","O","F","F","S","E","T"," ","?">>
kwInsertInto == <<"I","N","S","E","R","T"," ","I","N","T","O"," ">>
kwOpenParen == <<" ","(">>
kwCommaSp == <<","," ">>
kwValues == <<")"," ","V","A","L","U","E","S"," ","(">>
kwCloseParen == <<")">>
kwUpdate == <<"U","P","D","A","T","E"," ">>
kwSet == <<" ","S","E","T"," ">>
kwWhereId == <<" ","W","H","E","R","E"," ","i","d"," ","="," ","?">>
kwDeleteFrom == <<"D","E","L","E","T","E"," ","F","R","O","M"," ">>
keySortBy == <<"s","o","r","t","_","b","y">>
keyOrder == <<"o","r","d","e","r">>
keyLimit == <<"l","i","m","i","t">>
keyOffset == <<"o","f","f","s","e","t">>
BearerPrefix == <<"B","e","a","r","e","r"," ">>
segRest == <<"r","e","s","t">>
segQuery == <<"q","u","e","r","y">>
dbMcw == <<"m","c","w","_","d","b">>
dbUtility == <<"u","t","i","l","i","t","y","_","d","b">>
dbCatalog == <<"c","a","t","a","l","o","g","_","d","b">>

\* ['sort_by', 'order', 'limit', 'offset']
ReservedKeys == {keySortBy, keyOrder, keyLimit, keyOffset}

----------------------------------------------------------------------------
(* Statement compilers.  A compiler's result {status, message, params} is   *)
(* the record [status, sql, error, params, hasParams]: message is the SQL   *)
(* text (sql) when status is 200 and the error text (error) otherwise;      *)
(* hasParams is FALSE when the returned object has no params property.      *)
(* An absent id (pathParts[3] undefined) is the empty string: path parts    *)
(* are never empty, and the code only tests id for truthiness.              *)

Statement(sql, params) ==
    [status |-> 200, sql |-> sql, error |-> "", params |-> params, hasParams |-> TRUE]

StatementNoParams(sql) ==
    [status |-> 200, sql |-> sql, error |-> "", params |-> <<>>, hasParams |-> FALSE]

CompileError(status, error) ==
    [status |-> status, sql |-> <<>>, error |-> error, params |-> <<>>,
     hasParams |-> FALSE]

NoResult == [status |-> 0, sql |-> <<>>, error |-> "", params |-> <<>>, hasParams |-> FALSE]

\* searchParams.has(key)
HasParam(sp, key) == \E i \in DOMAIN sp : sp[i].key = key

\* searchParams.get(key): the first value of key (the empty string for null:
\* the code only tests the result for truthiness before using it)
GetParam(sp, key) ==
    IF HasParam(sp, key)
    THEN sp[CHOOSE i \in DOMAIN sp :
                sp[i].key = key /\ \A j \in 1..(i - 1) : sp[j].key # key].value
    ELSE <<>>

\* the loop without its `continue` for the reserved keys
FilterEntries_NoSkip(sp) == sp

\* the entries the loop of handleGet does not skip
RECURSIVE FilterEntries(_)
FilterEntries(sp) ==
    IF sp = <<>> THEN <<>>
    ELSE IF Head(sp).key \in ReservedKeys
         THEN FilterEntries(Tail(sp))
         ELSE <<Head(sp)>> \o FilterEntries(Tail(sp))

\* conditions: string[] of handleGet
GetConditions(id, sp) ==
    LET f == FilterEntries(sp)
    IN  (IF id # <<>> THEN <<kwIdEq>> ELSE <<>>)
        \o [i \in DOMAIN f |-> sanitizeIdentifier(f[i].key) \o kwEqParam]

\* params: any[] of handleGet after the id and the filter loop
GetFilterParams(id, sp) ==
    LET f == FilterEntries(sp)
    IN  (IF id # <<>> THEN <<StrVal(id)>> ELSE <<>>)
        \o [i \in DOMAIN f |-> StrVal(f[i].value)]

\* the WHERE clause appended to the query
GetWhere(id, sp) ==
    LET conditions == GetConditions(id, sp)
    IN  IF Len(conditions) > 0 THEN kwWhere \o Join(conditions, kwAnd) ELSE <<>>

\* the ORDER BY clause appended to the query
GetOrderBy(sp) ==
    LET sortBy == GetParam(sp, keySortBy)
        order == IF HasParam(sp, keyOrder)
                    /\ ToUpperCase(GetParam(sp, keyOrder)) = kwDesc
                 THEN kwDesc ELSE kwAsc
    IN  IF sortBy # <<>>
        THEN kwOrderBy \o sanitizeIdentifier(sortBy) \o <<" ">> \o order
        ELSE <<>>

\* the clauses with OFFSET handled outside the limit branch
GetPaginationSql_OffsetAlone(sp) ==
    LET limit == GetParam(sp, keyLimit)
        offset == GetParam(sp, keyOffset)
    IN  (IF limit # <<>> THEN kwLimit ELSE <<>>)
        \o (IF offset # <<>> THEN kwOffset ELSE <<>>)

\* the LIMIT / OFFSET clauses appended to the query
GetPaginationSql(sp) ==
    LET limit == GetParam(sp, keyLimit)
        offset == GetParam(sp, keyOffset)
    IN  IF limit # <<>>
        THEN kwLimit \o (IF offset # <<>> THEN kwOffset ELSE <<>>)
        ELSE <<>>

\* the values pushed to params with them
GetPaginationParams(sp) ==
    LET limit == GetParam(sp, keyLimit)
        offset == GetParam(sp, keyOffset)
    IN  IF limit # <<>>
        THEN <<ParseInt(limit)>> \o (IF offset # <<>> THEN <<ParseInt(offset)>> ELSE <<>>)
        ELSE <<>>

handleGet(tableName, id, sp) ==
    LET table == sanitizeKeyword(tableName)
    IN  Statement(kwSelectFrom \o table \o GetWhere(id, sp) \o GetOrderBy(sp)
                      \o GetPaginationSql(sp),
                  GetFilterParams(id, sp) \o GetPaginationParams(sp))

\* Object.keys(data)
ObjectKeys(entries) == [i \in DOMAIN entries |-> entries[i].key]

\* Object.values(data)
ObjectValues(entries) == [i \in DOMAIN entries |-> entries[i].value]

\* data[col]: the value of the own property col, undefined when there is none
GetProperty(entries, col) ==
    IF \E i \in DOMAIN entries : entries[i].key = col
    THEN entries[CHOOSE i \in DOMAIN entries : entries[i].key = col].value
    ELSE Undefined

\* the check without Array.isArray(data)
IsInvalidData_ArraysPass(data) == data.kind \notin {"object", "array"}

\* !data || typeof data !== 'object' || Array.isArray(data)
IsInvalidData(data) == data.kind # "object"

\* params of handlePost: columns.map(col => data[col])
PostParams(entries) ==
    LET columns == [i \in DOMAIN entries |-> sanitizeIdentifier(entries[i].key)]
    IN  [i \in DOMAIN columns |-> GetProperty(entries, columns[i])]

handlePost(tableName, data) ==
    LET table == sanitizeKeyword(tableName)
        columns == [i \in DOMAIN data.entries |->
                        sanitizeIdentifier(ObjectKeys(data.entries)[i])]
        placeholders == Join([i \in DOMAIN columns |-> <<"?">>], kwCommaSp)
    IN  IF IsInvalidData(data) THEN CompileError(400, "Invalid data format")
        ELSE Statement(kwInsertInto \o table \o kwOpenParen
                           \o Join(columns, kwCommaSp) \o kwValues
                           \o placeholders \o kwCloseParen,
                       PostParams(data.entries))

handleUpdate(tableName, id, data) ==
    LET table == sanitizeKeyword(tableName)
        setColumns == Join([i \in DOMAIN data.entries |->
                               sanitizeIdentifier(ObjectKeys(data.entries)[i])
                                   \o kwEqParam],
                           kwCommaSp)
    IN  IF IsInvalidData(data) THEN CompileError(400, "Invalid data format")
        ELSE Statement(kwUpdate \o table \o kwSet \o setColumns \o kwWhereId,
                       ObjectValues(data.entries) \o <<StrVal(id)>>)

handleDelete(tableName, id) ==
    LET table == sanitizeKeyword(tableName)
    IN  StatementNoParams(kwDeleteFrom \o table \o kwWhereId)

----------------------------------------------------------------------------
(* Requests the model draws.  The part of a request a step reads (the       *)
(* Authorization header, the query string, the JSON body) is chosen in the  *)
(* step that reads it.                                                      *)

Methods == {"GET", "POST", "PUT", "PATCH", "DELETE", "HEAD", "OPTIONS"}

DbNames == {dbMcw, dbUtility, dbCatalog, <<"b","a","d">>}
TableNames == {<<"t">>, <<"t","?",";">>}
Ids == {<<"7">>, <<"x",";">>}

Paths ==
    {<<segRest>>}
    \cup {<<segRest, d>> : d \in DbNames}
    \cup {<<segRest, d, t>> : d \in DbNames, t \in TableNames}
    \cup {<<segRest, d, t, i>> : d \in DbNames, t \in TableNames, i \in Ids}
    \cup {<<segQuery>>}
    \cup {<<segQuery, d>> : d \in DbNames}

\* values env.SECRET.get() may hold
Secrets == {<<"k">>, BearerPrefix \o <<"k">>}

NoHeader == [present |-> FALSE, value |-> <<>>]
AuthHeaders ==
    {NoHeader}
    \cup {[present |-> TRUE, value |-> v] :
             v \in {<<>>, <<"k">>, <<"z">>, BearerPrefix \o <<"k">>,
                    BearerPrefix \o <<"z">>, BearerPrefix \o BearerPrefix \o <<"k">>}}

QueryEntry(k, v) == [key |-> k, value |-> v]
QueryEntries ==
    {QueryEntry(keySortBy, <<"n",";">>), QueryEntry(keyOrder, <<"d","E","s","c">>),
     QueryEntry(keyLimit, <<"7">>), QueryEntry(keyLimit, <<>>),
     QueryEntry(keyLimit, <<"x">>), QueryEntry(keyOffset, <<"3">>),
     QueryEntry(keyOffset, <<>>), QueryEntry(<<"a">>, <<"v">>),
     QueryEntry(<<"a">>, <<"7">>), QueryEntry(<<"b","?">>, <<"v">>)}
QueryStrings == SeqsUpTo(QueryEntries, MaxQuery)

BodyKeys == {<<"a">>, <<"a",";">>, <<"b">>}
BodyValues == {StrVal(<<"v">>), NumVal(3)}
BodyEntries == {[key |-> k, value |-> v] : k \in BodyKeys, v \in BodyValues}

\* a parsed JSON object has one entry per key
DistinctKeys(entries) ==
    \A i, j \in DOMAIN entries : i # j => entries[i].key # entries[j].key

NoRawParams == [kind |-> "undefined", vals |-> <<>>]
Body(kind, entries, query, params) ==
    [kind |-> kind, entries |-> entries, query |-> query, params |-> params]
NoBody == Body("unread", <<>>, <<>>, NoRawParams)

\* bodies of POST/PUT/PATCH /rest requests; "malformed" makes c.req.json() throw
RestBodies ==
    {Body(k, <<>>, <<>>, NoRawParams) : k \in {"malformed", "null", "array", "primitive"}}
    \cup {Body("object", e, <<>>, NoRawParams) :
             e \in {x \in SeqsUpTo(BodyEntries, MaxKeys) : DistinctKeys(x)}}

\* bodies of POST /query requests: query is the empty string when the
\* property is missing or empty (the code tests !query); params is missing,
\* an array, or a number (which the spread cannot iterate)
RawQueries == {<<>>, <<"S","E","L","E","C","T"," ","?">>}
RawParams ==
    {NoRawParams, [kind |-> "number", vals |-> <<>>]}
    \cup {[kind |-> "array", vals |-> v] : v \in {<<>>, <<NumVal(3)>>}}
RawBodies ==
    {Body(k, <<>>, <<>>, NoRawParams) : k \in {"malformed", "null", "array", "primitive"}}
    \cup {Body("object", <<>>, q, p) : q \in RawQueries, p \in RawParams}

----------------------------------------------------------------------------
(* The request pipeline *)

Init ==
    /\ pc = "start"
    /\ method = "GET"
    /\ pathParts = <<segRest>>
    /\ secret = <<"k">>
    /\ authHeader = NoHeader
    /\ searchParams = <<>>
    /\ body = NoBody
    /\ compiled = NoResult
    /\ db = "null"
    /\ prepared = <<>>
    /\ bound = <<>>
    /\ executed = <<>>
    /\ responses = <<>>
    /\ ident = <<>>
    /\ safe = [done |-> FALSE, out |-> <<>>]

\* c.json(body, status) / a framework response, ending the request
Respond(status, text) ==
    /\ responses' = Append(responses, [status |-> status, body |-> text])
    /\ pc' = "done"

\* fetch: a request arrives and the secret is read (index.ts 33-42)
Fetch ==
    /\ pc = "start"
    /\ \E m \in Methods, p \in Paths, k \in Secrets :
          /\ method' = m
          /\ pathParts' = p
          /\ secret' = k
    /\ pc' = "cors"
    /\ UNCHANGED <<authHeader, searchParams, body, compiled, db, prepared, bound,
                   executed, responses, ident, safe>>

\* app.use('*', cors()): a preflight is answered here, anything else goes on
CorsMiddleware ==
    /\ pc = "cors"
    /\ IF method = "OPTIONS"
       THEN Respond(204, "")
       ELSE pc' = "route" /\ UNCHANGED responses
    /\ UNCHANGED <<method, pathParts, secret, authHeader, searchParams, body,
                   compiled, db, prepared, bound, executed, ident, safe>>

\* app.all('/rest/*', ...) takes every method, app.post('/query/*', ...)
\* only POST; a request no route takes gets the framework's 404
Route ==
    /\ pc = "route"
    /\ IF pathParts[1] = segRest \/ (pathParts[1] = segQuery /\ method = "POST")
       THEN pc' = "auth" /\ UNCHANGED responses
       ELSE Respond(404, "404 Not Found")
    /\ UNCHANGED <<method, pathParts, secret, authHeader, searchParams, body,
                   compiled, db, prepared, bound, executed, ident, safe>>

\* the token authMiddleware compares with the secret
Token(header) ==
    IF StartsWith(header, BearerPrefix)
    THEN Substring(header, BearerLen)
    ELSE header

\* the check with the comparison against the secret left out
Authorized_AnyHeader(header, key) ==
    /\ header.present
    /\ header.value # <<>>

\* whether authMiddleware calls next()
Authorized(header, key) ==
    /\ header.present
    /\ header.value # <<>>
    /\ Token(header.value) = key

authMiddleware ==
    /\ pc = "auth"
    /\ \E h \in AuthHeaders :
          /\ authHeader' = h
          /\ IF Authorized(h, secret)
             THEN /\ pc' = IF pathParts[1] = segRest THEN "handleRest" ELSE "rawQuery"
                  /\ UNCHANGED responses
             ELSE Respond(401, "Unauthorized")
    /\ UNCHANGED <<method, pathParts, secret, searchParams, body, compiled, db,
                   prepared, bound, executed, ident, safe>>

\* pathParts[1], pathParts[2], pathParts[3] of the source (0-based)
db_name == pathParts[2]
tableName == pathParts[3]
id == IF Len(pathParts) >= 4 THEN pathParts[4] ELSE <<>>

\* handleRest up to the call of a compiler: the path check, the switch on
\* the method and the id checks of PUT/PATCH and DELETE
handleRest ==
    /\ pc = "handleRest"
    /\ IF Len(pathParts) < 3
       THEN Respond(400, "Invalid path. Expected format: /rest/{db_name}/{tableName}/{id?}")
       ELSE CASE method = "GET" -> pc' = "handleGet" /\ UNCHANGED responses
              [] method = "POST" -> pc' = "handlePost" /\ UNCHANGED responses
              [] method \in {"PUT", "PATCH"} ->
                    IF id = <<>>
                    THEN Respond(400, "ID is required for updates")
                    ELSE pc' = "handleUpdate" /\ UNCHANGED responses
              [] method = "DELETE" ->
                    IF id = <<>>
                    THEN Respond(400, "ID is required for deletion")
                    ELSE pc' = "handleDelete" /\ UNCHANGED responses
              [] OTHER -> Respond(405, "Method not allowed")
    /\ UNCHANGED <<method, pathParts, secret, authHeader, searchParams, body,
                   compiled, db, prepared, bound, executed, ident, safe>>

\* case 'GET': await handleGet(c, tableName, id)
CallHandleGet ==
    /\ pc = "handleGet"
    /\ \E sp \in QueryStrings :
          /\ searchParams' = sp
          /\ compiled' = handleGet(tableName, id, sp)
    /\ pc' = "selectDb"
    /\ UNCHANGED <<method, pathParts, secret, authHeader, body, db, prepared,
                   bound, executed, responses, ident, safe>>

\* case 'POST': await handlePost(c, tableName).  c.req.json() is called
\* outside the try of handlePost: when it throws, handleRest rejects and
\* the framework answers 500
CallHandlePost ==
    /\ pc = "handlePost"
    /\ \E data \in RestBodies :
          /\ body' = data
          /\ IF data.kind = "malformed"
             THEN Respond(500, "Internal Server Error") /\ UNCHANGED compiled
             ELSE /\ compiled' = handlePost(tableName, data)
                  /\ pc' = "selectDb"
                  /\ UNCHANGED responses
    /\ UNCHANGED <<method, pathParts, secret, authHeader, searchParams, db,
                   prepared, bound, executed, ident, safe>>

\* case 'PUT' / 'PATCH': await handleUpdate(c, tableName, id)
CallHandleUpdate ==
    /\ pc = "handleUpdate"
    /\ \E data \in RestBodies :
          /\ body' = data
          /\ IF data.kind = "malformed"
             THEN Respond(500, "Internal Server Error") /\ UNCHANGED compiled
             ELSE /\ compiled' = handleUpdate(tableName, id, data)
                  /\ pc' = "selectDb"
                  /\ UNCHANGED responses
    /\ UNCHANGED <<method, pathParts, secret, authHeader, searchParams, db,
                   prepared, bound, executed, ident, safe>>

\* case 'DELETE': await handleDelete(c, tableName, id)
CallHandleDelete ==
    /\ pc = "handleDelete"
    /\ compiled' = handleDelete(tableName, id)
    /\ pc' = "selectDb"
    /\ UNCHANGED <<method, pathParts, secret, authHeader, searchParams, body, db,
                   prepared, bound, executed, responses, ident, safe>>

\* the switch with a default branch that falls back to the first binding
SelectHandle_DefaultBinding(name) ==
    CASE name = dbUtility -> "UTILITY_DB"
      [] name = dbCatalog -> "CATALOG_DB"
      [] OTHER -> "MCW_DB"

\* switch (db_name): the D1 binding of a logical database name, "null"
\* for the default branch
SelectHandle(name) ==
    CASE name = dbMcw -> "MCW_DB"
      [] name = dbUtility -> "UTILITY_DB"
      [] name = dbCatalog -> "CATALOG_DB"
      [] OTHER -> "null"

\* handleRest after a compiler returned: the status check, then the switch
\* on db_name
SelectDb ==
    /\ pc = "selectDb"
    /\ IF compiled.status # 200
       THEN Respond(compiled.status, compiled.error) /\ UNCHANGED db
       ELSE IF SelectHandle(db_name) = "null"
            THEN Respond(400, "Unknown database name") /\ UNCHANGED db
            ELSE /\ db' = SelectHandle(db_name)
                 /\ pc' = "prepare"
                 /\ UNCHANGED responses
    /\ UNCHANGED <<method, pathParts, secret, authHeader, searchParams, body,
                   compiled, prepared, bound, executed, ident, safe>>

\* the /query handler up to the switch on db_name (index.ts 69-103)
rawQuery ==
    /\ pc = "rawQuery"
    /\ IF Len(pathParts) < 2
       THEN Respond(400, "Invalid path. Expected format: /rest/{db_name}")
            /\ UNCHANGED <<body, db>>
       ELSE \E data \in RawBodies :
               /\ body' = data
               /\ IF data.kind = "malformed"
                  THEN Respond(500, "SyntaxError") /\ UNCHANGED db
                  ELSE IF data.kind = "null"
                  THEN Respond(500, "TypeError") /\ UNCHANGED db
                  ELSE IF data.kind # "object" \/ data.query = <<>>
                  THEN Respond(400, "Query is required") /\ UNCHANGED db
                  ELSE IF SelectHandle(db_name) = "null"
                  THEN Respond(400, "Unknown database name") /\ UNCHANGED db
                  ELSE /\ db' = SelectHandle(db_name)
                       /\ pc' = "prepare"
                       /\ UNCHANGED responses
    /\ UNCHANGED <<method, pathParts, secret, authHeader, searchParams, compiled,
                   prepared, bound, executed, ident, safe>>

\* the SQL text handed to prepare
StatementText == IF pathParts[1] = segRest THEN compiled.sql ELSE body.query

\* db.prepare(text)
Prepare ==
    /\ pc = "prepare"
    /\ prepared' = Append(prepared, StatementText)
    /\ pc' = "bind"
    /\ UNCHANGED <<method, pathParts, secret, authHeader, searchParams, body,
                   compiled, db, bound, executed, responses, ident, safe>>

\* the argument of .bind in the GET and POST cases: ...(params || [])
ParamsOrEmpty(result) == IF result.hasParams THEN result.params ELSE <<>>

\* .bind(...).  GET and POST spread their own params.  PUT/PATCH spread
\* `params`, the const the GET case declares (part_000 157): in the PUT
\* case that declaration has not run, so reading it throws a ReferenceError
\* (caught: 500), or yields undefined where the build lowers const to var.
\* DELETE binds nothing.  /query spreads the body's params, which throws
\* when they are not iterable.
Bind ==
    /\ pc = "bind"
    /\ CASE pathParts[1] = segQuery ->
               IF body.params.kind = "number"
               THEN Respond(500, "TypeError") /\ UNCHANGED bound
               ELSE /\ bound' = body.params.vals
                    /\ pc' = "execute"
                    /\ UNCHANGED responses
         [] pathParts[1] = segRest /\ method \in {"GET", "POST"} ->
               /\ bound' = ParamsOrEmpty(compiled)
               /\ pc' = "execute"
               /\ UNCHANGED responses
         [] pathParts[1] = segRest /\ method \in {"PUT", "PATCH"} ->
               \E lowered \in BOOLEAN :
                  IF lowered
                  THEN /\ bound' = <<>>
                       /\ pc' = "execute"
                       /\ UNCHANGED responses
                  ELSE Respond(500, "ReferenceError") /\ UNCHANGED bound
         [] OTHER ->
               /\ bound' = <<>>
               /\ pc' = "execute"
               /\ UNCHANGED responses
    /\ UNCHANGED <<method, pathParts, secret, authHeader, searchParams, body,
                   compiled, db, prepared, executed, ident, safe>>

\* the response of a request whose statement ran
SuccessResponse ==
    CASE pathParts[1] = segQuery -> [status |-> 200, body |-> "results"]
      [] method = "GET" -> [status |-> 200, body |-> "results"]
      [] method = "POST" -> [status |-> 201, body |-> "Resource created successfully"]
      [] method \in {"PUT", "PATCH"} ->
            [status |-> 200, body |-> "Resource updated successfully"]
      [] OTHER -> [status |-> 200, body |-> "Resource deleted successfully"]

\* the same step with a retry: a failed statement is run again
Execute_Retry ==
    /\ pc = "execute"
    /\ \E ok \in BOOLEAN :
          /\ executed' = Append(executed,
                                [db |-> db, sql |-> prepared[Len(prepared)],
                                 bound |-> bound, ok |-> ok])
          /\ IF ok
             THEN Respond(SuccessResponse.status, SuccessResponse.body)
             ELSE pc' = "execute" /\ UNCHANGED responses
    /\ Len(executed) < 2
    /\ UNCHANGED <<method, pathParts, secret, authHeader, searchParams, body,
                   compiled, db, prepared, bound, ident, safe>>

\* .all() / .run(): the statement runs on the database; when the driver
\* throws, the catch answers 500 with error.message
Execute ==
    /\ pc = "execute"
    /\ \E ok \in BOOLEAN :
          /\ executed' = Append(executed,
                                [db |-> db, sql |-> prepared[Len(prepared)],
                                 bound |-> bound, ok |-> ok])
          /\ IF ok
             THEN Respond(SuccessResponse.status, SuccessResponse.body)
             ELSE Respond(500, "driver error message")
    /\ UNCHANGED <<method, pathParts, secret, authHeader, searchParams, body,
                   compiled, db, prepared, bound, ident, safe>>

Next ==
    \/ Fetch
    \/ CorsMiddleware
    \/ Route
    \/ authMiddleware
    \/ handleRest
    \/ CallHandleGet
    \/ CallHandlePost
    \/ CallHandleUpdate
    \/ CallHandleDelete
    \/ SelectDb
    \/ rawQuery
    \/ Prepare
    \/ Bind
    \/ Execute

Spec == Init /\ [][Next]_vars

----------------------------------------------------------------------------
(* The sanitizer on its own: every string over SanChars up to MaxLen is     *)
(* handed to sanitizeIdentifier, and its output is handed back to it.      *)

SanChars == {"a", "Z", "7", "_", ";", "?", " ", "'", Backtick}

SanInit ==
    /\ pc = "sanitize"
    /\ method = "GET"
    /\ pathParts = <<segRest>>
    /\ secret = <<"k">>
    /\ authHeader = NoHeader
    /\ searchParams = <<>>
    /\ body = NoBody
    /\ compiled = NoResult
    /\ db = "null"
    /\ prepared = <<>>
    /\ bound = <<>>
    /\ executed = <<>>
    /\ responses = <<>>
    /\ ident \in SeqsUpTo(SanChars, MaxLen)
    /\ safe = [done |-> FALSE, out |-> <<>>]

Sanitize ==
    /\ pc = "sanitize"
    /\ ~safe.done
    /\ safe' = [done |-> TRUE, out |-> sanitizeIdentifier(ident)]
    /\ UNCHANGED <<pc, method, pathParts, secret, authHeader, searchParams, body,
                   compiled, db, prepared, bound, executed, responses, ident>>

SanitizeAgain ==
    /\ pc = "sanitize"
    /\ safe.done
    /\ ident' = safe.out
    /\ safe' = [done |-> FALSE, out |-> <<>>]
    /\ pc' = "resanitize"
    /\ UNCHANGED <<method, pathParts, secret, authHeader, searchParams, body,
                   compiled, db, prepared, bound, executed, responses>>

SanitizeOutput ==
    /\ pc = "resanitize"
    /\ ~safe.done
    /\ safe' = [done |-> TRUE, out |-> sanitizeIdentifier(ident)]
    /\ UNCHANGED <<pc, method, pathParts, secret, authHeader, searchParams, body,
                   compiled, db, prepared, bound, executed, responses, ident>>

SanNext == Sanitize \/ SanitizeAgain \/ SanitizeOutput

SanSpec == SanInit /\ [][SanNext]_vars

----------------------------------------------------------------------------
(* Properties *)

IsRest == pathParts[1] = segRest
IsQuery == pathParts[1] = segQuery

\* a compiler returned a statement for the request
HasStatement == compiled.status = 200

\* C1: every Compiled Statement a compiler returns has as many `?`
\* placeholders in its SQL text as values in the parameter list returned
\* with it (GET, POST, UPDATE and DELETE alike)
C1_PlaceholdersMatchParams ==
    HasStatement => CountChar(compiled.sql, "?") = Len(compiled.params)

\* C2: for a PUT/PATCH request the values bound to the prepared UPDATE
\* statement, and the values it is executed with, are the body's values in
\* key order followed by the id
C2_UpdateBindsOwnParams ==
    (IsRest /\ method \in {"PUT", "PATCH"}) =>
        LET own == ObjectValues(body.entries) \o <<StrVal(id)>>
        IN  /\ \A i \in DOMAIN executed : executed[i].bound = own
            /\ (prepared # <<>> /\ pc \in {"execute", "done"}) => bound = own

\* C5: the INSERT compiled for a POST with an object body has one column
\* and one `?` per key, and its i-th parameter is the value of the body's
\* i-th key, whether or not the keys are safe identifiers
C5_InsertBindsEachKeysValue ==
    (IsRest /\ method = "POST" /\ HasStatement) =>
        /\ CountChar(compiled.sql, "?") = Len(body.entries)
        /\ Len(compiled.params) = Len(body.entries)
        /\ \A i \in DOMAIN body.entries :
              compiled.params[i] = body.entries[i].value

\* the characters a safe identifier may hold
SafeIdentifierChars == AsciiLower \cup AsciiUpper \cup AsciiDigit \cup {"_"}

\* C9: the sanitizer's output holds only ASCII letters, digits and
\* underscores, it is the input with exactly the other characters dropped,
\* and sanitizing the output again returns it unchanged
C9_SanitizeSafeAndIdempotent ==
    safe.done =>
        /\ \A i \in DOMAIN safe.out : safe.out[i] \in SafeIdentifierChars
        /\ \A ch \in {";", "?", " ", "'", Backtick} : CountChar(safe.out, ch) = 0
        /\ \A ch \in SafeIdentifierChars :
              CountChar(safe.out, ch) = CountChar(ident, ch)
        /\ pc = "resanitize" => safe.out = ident

C9_Witness ==
    /\ pc = "resanitize"
    /\ safe.done
    /\ ident = <<"a", "_", "7">>
    /\ safe.out = <<"a", "_", "7">>

C9_WitnessDrops ==
    /\ pc = "sanitize"
    /\ safe.done
    /\ ident = <<";", "a", "?">>
    /\ safe.out = <<"a">>

\* s.endsWith(p)
EndsWith(s, p) == Len(s) >= Len(p) /\ SubSeq(s, Len(s) - Len(p) + 1, Len(s)) = p

\* s.includes(p)
Contains(s, p) == \E i \in 0..(Len(s) - Len(p)) : SubSeq(s, i + 1, i + Len(p)) = p

\* the last n elements of s
LastN(s, n) == SubSeq(s, Len(s) - n + 1, Len(s))

\* the request went through authMiddleware, which called next()
Authenticated == pc \notin {"start", "cors", "route", "auth"} /\ authHeader.present
                 /\ (IF Len(authHeader.value) >= 7
                        /\ SubSeq(authHeader.value, 1, 7) = BearerPrefix
                     THEN SubSeq(authHeader.value, 8, Len(authHeader.value))
                     ELSE authHeader.value) = secret

KnownDbNames == {dbMcw, dbUtility, dbCatalog}
UnknownDb == Len(pathParts) >= 2 /\ pathParts[2] \notin KnownDbNames

NothingPrepared == prepared = <<>> /\ bound = <<>> /\ executed = <<>>

\* C3 as stated: an authenticated request naming an unknown database is
\* answered 400 and nothing is prepared or executed for it
C3_UnknownDbAlways400 ==
    (Authenticated /\ UnknownDb) =>
        /\ NothingPrepared
        /\ pc = "done" => (Len(responses) = 1 /\ responses[1].status = 400)

\* the status an authenticated request naming an unknown database ends
\* with: 500 when reading its JSON body throws, 405 for a /rest method
\* outside GET, POST, PUT, PATCH and DELETE, and 400 otherwise
UnknownDbStatus ==
    IF body.kind = "malformed" \/ (IsQuery /\ body.kind = "null") THEN 500
    ELSE IF IsRest /\ Len(pathParts) >= 3
            /\ method \notin {"GET", "POST", "PUT", "PATCH", "DELETE"} THEN 405
    ELSE 400

\* C3: for an authenticated request naming an unknown database nothing is
\* prepared, bound or executed, and the request ends with one error
\* response: 400, except 405 for an unsupported /rest method and 500 when
\* reading the JSON body throws
C3_UnknownDbNeverExecutes ==
    (Authenticated /\ UnknownDb) =>
        /\ NothingPrepared
        /\ db = "null"
        /\ pc = "done" =>
              (Len(responses) = 1 /\ responses[1].status = UnknownDbStatus)

C3_Witness ==
    /\ Authenticated /\ UnknownDb
    /\ pc = "done"
    /\ method = "POST" /\ IsRest
    /\ HasStatement
    /\ responses = <<[status |-> 400, body |-> "Unknown database name"]>>

\* the request reached a compiler or a database
ReachedBackend ==
    \/ pc \in {"handleRest", "rawQuery", "handleGet", "handlePost", "handleUpdate",
               "handleDelete", "selectDb", "prepare", "bind", "execute"}
    \/ compiled # NoResult
    \/ body # NoBody
    \/ db # "null"
    \/ ~NothingPrepared

\* the request is one authMiddleware is run for
ReachesAuth == method # "OPTIONS" /\ (IsRest \/ (IsQuery /\ method = "POST"))

Rejected401 ==
    /\ responses = <<[status |-> 401, body |-> "Unauthorized"]>>
    /\ compiled = NoResult
    /\ NothingPrepared

\* C4 as stated: only a header `Bearer <secret>` lets a request through,
\* and every other request is answered 401 with nothing compiled or executed
C4_OnlyBearerForm ==
    LET bearer == authHeader.present /\ authHeader.value = BearerPrefix \o secret
    IN  /\ ReachedBackend => bearer
        /\ (pc = "done" /\ ReachesAuth /\ ~bearer) => Rejected401

\* C4: a request reaches a compiler or a database only if its Authorization
\* header, with one leading `Bearer ` removed when it has one, equals the
\* secret (the bare secret passes too); every request authMiddleware is run
\* for (any method but OPTIONS on /rest, POST on /query) whose header is
\* absent, empty or different is answered 401 Unauthorized with nothing
\* compiled, prepared or executed
C4_OnlyMatchingToken ==
    LET stripped == IF Len(authHeader.value) >= 7
                       /\ SubSeq(authHeader.value, 1, 7) = BearerPrefix
                    THEN SubSeq(authHeader.value, 8, Len(authHeader.value))
                    ELSE authHeader.value
        matches == authHeader.present /\ authHeader.value # <<>> /\ stripped = secret
    IN  /\ ReachedBackend => matches
        /\ (pc = "done" /\ ReachesAuth /\ ~matches) => Rejected401

C4_Witness ==
    /\ pc = "done"
    /\ secret = <<"k">>
    /\ authHeader = [present |-> TRUE, value |-> <<"k">>]
    /\ executed # <<>>

C4_WitnessRejected ==
    /\ pc = "done"
    /\ secret = <<"k">>
    /\ authHeader = [present |-> TRUE, value |-> BearerPrefix \o <<"z">>]
    /\ Rejected401

\* C6: a POST, or a PUT/PATCH with an id, whose JSON body is null, an array
\* or a primitive is answered 400 "Invalid data format"; no SQL is compiled
\* and nothing is prepared or executed
C6_NonObjectBodyRejected ==
    (IsRest /\ method \in {"POST", "PUT", "PATCH"}
        /\ body.kind \in {"null", "array", "primitive"}) =>
        /\ compiled = CompileError(400, "Invalid data format")
        /\ NothingPrepared
        /\ db = "null"
        /\ pc \in {"selectDb", "done"}
        /\ pc = "done" =>
              responses = <<[status |-> 400, body |-> "Invalid data format"]>>

C6_Witness ==
    /\ IsRest /\ method = "PATCH" /\ id # <<>>
    /\ body.kind = "array"
    /\ pc = "done"
    /\ responses = <<[status |-> 400, body |-> "Invalid data format"]>>

\* the compiler ran for a GET request
GetCompiled == IsRest /\ method = "GET" /\ HasStatement

\* the value of the first entry of sp with the given key, when it has one
RECURSIVE FirstValue(_, _)
FirstValue(sp, key) ==
    IF sp = <<>> THEN <<>>
    ELSE IF Head(sp).key = key THEN Head(sp).value
    ELSE FirstValue(Tail(sp), key)

KeyPresent(sp, key) == \E i \in DOMAIN sp : sp[i].key = key

\* the entries of sp that are filters, by the claim's reserved set
IsFilterEntry(e) == e.key \notin {keySortBy, keyOrder, keyLimit, keyOffset}
FilterCount(sp) == Cardinality({i \in DOMAIN sp : IsFilterEntry(sp[i])})
IdCount == IF Len(pathParts) >= 4 THEN 1 ELSE 0

\* the pagination part of C7, for "limit is there" read as hasLimit and
\* "offset is there" read as hasOffset
Pagination(hasLimit, hasOffset) ==
    LET sql == compiled.sql
        params == compiled.params
        nFilters == IdCount + FilterCount(searchParams)
        limit == ParseInt(FirstValue(searchParams, keyLimit))
        offset == ParseInt(FirstValue(searchParams, keyOffset))
    IN  /\ EndsWith(sql, kwLimit) <=> (hasLimit /\ ~hasOffset)
        /\ EndsWith(sql, kwLimit \o kwOffset) <=> (hasLimit /\ hasOffset)
        /\ Contains(sql, kwLimit) <=> hasLimit
        /\ Contains(sql, kwOffset) <=> (hasLimit /\ hasOffset)
        /\ (hasLimit /\ ~hasOffset) =>
              (Len(params) = nFilters + 1 /\ LastN(params, 1) = <<limit>>)
        /\ (hasLimit /\ hasOffset) =>
              (Len(params) = nFilters + 2 /\ LastN(params, 2) = <<limit, offset>>)
        /\ ~hasLimit => Len(params) = nFilters

\* C7 as stated: LIMIT ? is appended exactly when a limit key is in the
\* query string, OFFSET ? when an offset key is there too
C7_LimitWhenKeyPresent ==
    GetCompiled => Pagination(KeyPresent(searchParams, keyLimit),
                              KeyPresent(searchParams, keyOffset))

\* C7: the SELECT ends with LIMIT ? exactly when the first limit value of
\* the query string is non-empty, and with LIMIT ? OFFSET ? exactly when
\* the first offset value is non-empty too; the parsed limit and then the
\* parsed offset are the last parameters; without a limit there is no
\* OFFSET clause and no offset value is bound
C7_LimitWhenValueNonEmpty ==
    GetCompiled => Pagination(FirstValue(searchParams, keyLimit) # <<>>,
                              FirstValue(searchParams, keyOffset) # <<>>)

C7_Witness ==
    /\ GetCompiled
    /\ searchParams = <<QueryEntry(keyLimit, <<"7">>), QueryEntry(keyOffset, <<"3">>)>>
    /\ EndsWith(compiled.sql, kwLimit \o kwOffset)
    /\ LastN(compiled.params, 2) = <<NumVal(7), NumVal(3)>>

C7_WitnessOffsetAlone ==
    /\ GetCompiled
    /\ searchParams = <<QueryEntry(keyOffset, <<"3">>)>>
    /\ ~Contains(compiled.sql, kwOffset)
    /\ Len(compiled.params) = IdCount

\* the WHERE clause C8 describes: `id = ?` first when there is an id, then
\* `<sanitized key> = ?` per filter entry, AND between them
RECURSIVE FilterClause(_, _)
FilterClause(sp, first) ==
    IF sp = <<>> THEN <<>>
    ELSE IF IsFilterEntry(Head(sp))
         THEN (IF first THEN <<>> ELSE kwAnd)
              \o sanitizeIdentifier(Head(sp).key) \o kwEqParam
              \o FilterClause(Tail(sp), FALSE)
         ELSE FilterClause(Tail(sp), first)

RECURSIVE FilterValues(_)
FilterValues(sp) ==
    IF sp = <<>> THEN <<>>
    ELSE (IF IsFilterEntry(Head(sp)) THEN <<StrVal(Head(sp).value)>> ELSE <<>>)
         \o FilterValues(Tail(sp))

\* C8: the WHERE clause of a compiled SELECT is `id = ?` first when there
\* is an id, then one `<sanitized key> = ?` per query-string entry whose key
\* is not reserved, joined with AND; the id and then the entries' values
\* are bound in that order; there is no WHERE clause exactly when there is
\* neither an id nor a non-reserved key
C8_WhereClause ==
    GetCompiled =>
        LET hasId == Len(pathParts) >= 4
            n == IdCount + FilterCount(searchParams)
            clause == (IF hasId THEN kwIdEq ELSE <<>>)
                      \o FilterClause(searchParams, ~hasId)
            head == kwSelectFrom \o <<Backtick>> \o sanitizeIdentifier(pathParts[3])
                    \o <<Backtick>>
            expected == IF n = 0 THEN head ELSE head \o kwWhere \o clause
            rest == SubSeq(compiled.sql, Len(expected) + 1, Len(compiled.sql))
        IN  /\ StartsWith(compiled.sql, expected)
            /\ rest = <<>> \/ StartsWith(rest, kwOrderBy) \/ StartsWith(rest, kwLimit)
            /\ StartsWith(SubSeq(compiled.sql, Len(head) + 1, Len(compiled.sql)),
                          kwWhere) <=> n > 0
            /\ CountChar(SubSeq(compiled.sql, 1, Len(expected)), "?") = n
            /\ Len(compiled.params) >= n
            /\ SubSeq(compiled.params, 1, n)
                  = (IF hasId THEN <<StrVal(pathParts[4])>> ELSE <<>>)
                    \o FilterValues(searchParams)

C8_Witness ==
    /\ GetCompiled
    /\ Len(pathParts) >= 4 /\ pathParts[4] = <<"7">>
    /\ searchParams = <<QueryEntry(keyLimit, <<"7">>), QueryEntry(<<"b","?">>, <<"v">>)>>
    /\ Contains(compiled.sql,
                kwWhere \o kwIdEq \o kwAnd \o <<"b">> \o kwEqParam \o kwLimit)
    /\ compiled.params = <<StrVal(<<"7">>), StrVal(<<"v">>), NumVal(7)>>

C8_WitnessNoWhere ==
    /\ GetCompiled
    /\ Len(pathParts) = 3
    /\ searchParams = <<QueryEntry(keyOrder, <<"d","E","s","c">>)>>
    /\ compiled.sql = kwSelectFrom \o sanitizeKeyword(pathParts[3])

\* C10: a request gets at most one response and has one exactly when it is
\* over; a request handled by handleRest or the /query route runs at most
\* one statement, a statement run is the one prepared with the values
\* bound, and when the driver fails on it the request ends with 500 and
\* the driver's message, the statement not being run again
C10_OneResponseOneExecution ==
    /\ Len(responses) <= 1
    /\ pc = "done" <=> Len(responses) = 1
    /\ Len(prepared) <= 1
    /\ Len(executed) <= 1
    /\ executed # <<>> =>
          /\ pc = "done"
          /\ executed[1].sql = prepared[1]
          /\ executed[1].bound = bound
          /\ executed[1].db = db
          /\ ~executed[1].ok =>
                responses = <<[status |-> 500, body |-> "driver error message"]>>
          /\ executed[1].ok => responses[1].status \in {200, 201}
    /\ (pc # "done") => ENABLED Next

C10_Witness ==
    /\ pc = "done"
    /\ Len(executed) = 1
    /\ ~executed[1].ok
    /\ responses = <<[status |-> 500, body |-> "driver error message"]>>

====
